---- MODULE Spec2Model ----
(***************************************************************************)
(* Model of the radius-circle map tool (src/src/App.tsx, the multi-circle  *)
(* App of lines 1-296): the React state of App, the in-flight coordinate   *)
(* lookup with the closure it captured, the AutoFitAllBounds effect with   *)
(* its 100 ms timer, and the map view the timer's callback fits.           *)
(*                                                                         *)
(* Numbers are fixed-point integers:                                       *)
(*   radius          in tenths            (RadiusScale = 10)               *)
(*   meters          in hundredths        (MeterScale  = 100)              *)
(*   degrees         in hundredths                                         *)
(*   cosines         in ten-thousandths   (CosScale    = 10000)            *)
(* Division rounds toward zero (FDiv), as the sign-symmetric floating      *)
(* division of the source does.                                            *)
(***************************************************************************)
EXTENDS Integers, Sequences, FiniteSets, TLC

VARIABLES
    circles,       \* App state: CircleData[]                       (line 75)
    loading,       \* App state: boolean                            (line 76)
    error,         \* App state: string                             (line 77)
    address,       \* App state: string, as a sequence of characters (line 78)
    lookup,        \* the lookup in flight and the closure its callbacks hold
    geoSupported,  \* navigator.geolocation is present               (line 95)
    now,           \* the clock read by Date.now()                   (line 82)
    fitTimer,      \* AutoFitAllBounds' pending setTimeout and its closure
    mapView,       \* the bounds last handed to map.fitBounds, or NoView
    drawn,         \* the <Circle> elements of the last render       (line 276)
    inFlight,      \* calls of getCurrentPosition and fetch not yet answered
    intersections, \* the list the geometry engine's intersect returned last
    edits,         \* history: number of radius edits, unit edits and deletions
    last           \* history: the operation that produced this state

vars == <<circles, loading, error, address, lookup, geoSupported, now,
          fitTimer, mapView, drawn, inFlight, intersections, edits, last>>

----------------------------------------------------------------------------
(* Bounds of the model *)

MaxCircles == 2
MaxTime == 2
MaxEdits == 2

(* Fixed-point scales *)

RadiusScale == 10
MeterScale == 100
CosScale == 10000

(* Numbers of the source *)

\* 1609.34 meters per mile, in hundredths
MilesToMeters == 160934
\* 1000 meters per kilometer
KmToMeters == 1000
\* meters per degree of latitude
MetersPerDegree == 111320

None == [kind |-> "none"]
NoView == [kind |-> "initial"]

----------------------------------------------------------------------------
(* Arithmetic helpers *)

Abs(a) == IF a < 0 THEN -a ELSE a

Min(a, b) == IF a <= b THEN a ELSE b

Max(a, b) == IF a >= b THEN a ELSE b

\* a / b of the source on fixed-point operands, rounded toward zero
FDiv(a, b) ==
    LET q == Abs(a) \div Abs(b)
    IN IF (a < 0) = (b < 0) THEN q ELSE -q

\* a * b / c without leaving 32 bits, for a >= 0, b > 0, c > 0
MulDiv(a, b, c) == (a \div c) * b + ((a % c) * b) \div c

----------------------------------------------------------------------------
(* parseFloat on the text of the radius input *)

Digits == <<"0", "1", "2", "3", "4", "5", "6", "7", "8", "9">>

IsDigit(ch) == \E d \in 1..10 : Digits[d] = ch

DigitVal(ch) == (CHOOSE d \in 1..10 : Digits[d] = ch) - 1

IsSpace(ch) == ch = " "

RECURSIVE CountWhile(_, _, _)
\* number of consecutive characters of s from index i on that are digits
\* (spaces = FALSE) or white space (spaces = TRUE)
CountWhile(s, i, spaces) ==
    IF i > Len(s) THEN 0
    ELSE IF (IF spaces THEN IsSpace(s[i]) ELSE IsDigit(s[i]))
         THEN 1 + CountWhile(s, i + 1, spaces)
         ELSE 0

RECURSIVE DigitsValue(_, _, _)
\* the value of the n digits of s that start at index i
DigitsValue(s, i, n) ==
    IF n = 0 THEN 0
    ELSE DigitsValue(s, i, n - 1) * 10 + DigitVal(s[i + n - 1])

NaN == [nan |-> TRUE, val |-> 0]

\* parseFloat(text): leading white space, an optional sign, digits with an
\* optional fraction; the longest such prefix is the number, anything after
\* it is ignored, and no digit at all is NaN.  The value is in tenths.
ParseFloat(text) ==
    LET start == 1 + CountWhile(text, 1, TRUE)
        signed == start <= Len(text) /\ text[start] \in {"-", "+"}
        negative == signed /\ text[start] = "-"
        i == IF signed THEN start + 1 ELSE start
        nInt == CountWhile(text, i, FALSE)
        dot == i + nInt
        hasDot == dot <= Len(text) /\ text[dot] = "."
        nFrac == IF hasDot THEN CountWhile(text, dot + 1, FALSE) ELSE 0
        magnitude == DigitsValue(text, i, nInt) * RadiusScale
                     + (IF nFrac > 0 THEN DigitVal(text[dot + 1]) ELSE 0)
    IN IF nInt + nFrac = 0 THEN NaN
       ELSE [nan |-> FALSE, val |-> IF negative THEN -magnitude ELSE magnitude]

\* parseFloat(e.target.value) || 1 : NaN and 0 are falsy
RadiusFromInput(text) ==
    LET p == ParseFloat(text)
    IN IF p.nan \/ p.val = 0 THEN 1 * RadiusScale ELSE p.val

\* address.trim() is the empty string
IsBlank(text) == CountWhile(text, 1, TRUE) = Len(text)

----------------------------------------------------------------------------
(* Inputs *)

\* texts the radius <input type="number"> delivers
RadiusTexts ==
    { <<>>, <<"a">>, <<"0">>, <<"0", ".", "5">>, <<"-", "5">>,
      <<"1", "8", "6", "7">> }

Units == {"miles", "km"}

\* coordinates a lookup delivers, [lat, lng] in hundredths of a degree
Coords == { [lat |-> 1000, lng |-> -17900], [lat |-> -1000, lng |-> -17900] }

AddressTexts == { <<>>, <<" ">>, <<"N", "Y">> }

\* err.message of a GeolocationPositionError
GeoErrorMessages == {"", "User denied Geolocation"}

----------------------------------------------------------------------------
(* Geometry of AutoFitAllBounds *)

\* Math.cos(lat * Math.PI / 180), in ten-thousandths, for the latitudes the
\* model's coordinates and their pairwise averages take
CosTable == [lat \in {-1000, 0, 1000} |-> IF lat = 0 THEN 10000 ELSE 9848]

Cos(lat) == CosTable[lat]

\* a slip of the conversion: kilometers taken for miles and miles for kilometers
RadiusInMetersUnitsSwapped(circle) ==
    LET sign == IF circle.radius < 0 THEN -1 ELSE 1
        perUnit == IF circle.unit = "km" THEN MilesToMeters
                   ELSE KmToMeters * MeterScale
    IN sign * MulDiv(Abs(circle.radius), perUnit, RadiusScale)

\* circle.unit === 'miles' ? circle.radius * 1609.34 : circle.radius * 1000
\* (line 42), in hundredths of a meter
RadiusInMeters(circle) ==
    LET sign == IF circle.radius < 0 THEN -1 ELSE 1
        perUnit == IF circle.unit = "miles" THEN MilesToMeters
                   ELSE KmToMeters * MeterScale
    IN sign * MulDiv(Abs(circle.radius), perUnit, RadiusScale)

\* the same conversion as written again for the drawn <Circle> (line 262)
DrawnRadiusInMeters(circle) ==
    LET sign == IF circle.radius < 0 THEN -1 ELSE 1
        perUnit == IF circle.unit = "miles" THEN MilesToMeters
                   ELSE KmToMeters * MeterScale
    IN sign * MulDiv(Abs(circle.radius), perUnit, RadiusScale)

\* radiusInMeters / 111320 (line 43): hundredths of a meter over meters per
\* degree are hundredths of a degree
LatDelta(circle) == FDiv(RadiusInMeters(circle), MetersPerDegree)

\* radiusInMeters / (111320 * Math.cos(circle.lat * Math.PI / 180)) (line 44)
LngDelta(circle) ==
    FDiv(RadiusInMeters(circle), FDiv(MetersPerDegree * Cos(circle.lat), CosScale))

\* L.latLngBounds(corner1, corner2): the box spanned by two corners given in
\* either order
LatLngBounds(c1, c2) ==
    [minLat |-> Min(c1.lat, c2.lat), minLng |-> Min(c1.lng, c2.lng),
     maxLat |-> Max(c1.lat, c2.lat), maxLng |-> Max(c1.lng, c2.lng),
     kind |-> "bounds"]

\* a slip of the box: the first corner left at the center's latitude
CircleBoundsFromCenter(circle) ==
    LatLngBounds(
        [lat |-> circle.lat, lng |-> circle.lng - LngDelta(circle)],
        [lat |-> circle.lat + LatDelta(circle), lng |-> circle.lng + LngDelta(circle)])

\* L.latLngBounds([lat - latDelta, lng - lngDelta], [lat + latDelta, lng + lngDelta])
\* (lines 46-49)
CircleBounds(circle) ==
    LatLngBounds(
        [lat |-> circle.lat - LatDelta(circle), lng |-> circle.lng - LngDelta(circle)],
        [lat |-> circle.lat + LatDelta(circle), lng |-> circle.lng + LngDelta(circle)])

\* combinedBounds.extend(other)
Extend(b, other) ==
    [minLat |-> Min(b.minLat, other.minLat), minLng |-> Min(b.minLng, other.minLng),
     maxLat |-> Max(b.maxLat, other.maxLat), maxLng |-> Max(b.maxLng, other.maxLng),
     kind |-> "bounds"]

\* circles.forEach(... allBounds.push(circleBounds)) (lines 39-51)
AllBounds(cs) == [i \in 1..Len(cs) |-> CircleBounds(cs[i])]

RECURSIVE CombineFromStopsEarly(_, _, _)
\* a slip of the loop: i < allBounds.length - 1 leaves the last box out
CombineFromStopsEarly(combined, allBounds, i) ==
    IF i > Len(allBounds) - 1 THEN combined
    ELSE CombineFromStopsEarly(Extend(combined, allBounds[i]), allBounds, i + 1)

RECURSIVE CombineFrom(_, _, _)
\* for (let i = 1; i < allBounds.length; i++) combinedBounds.extend(allBounds[i])
\* with i counted from 1 as the sequence index i + 1
CombineFrom(combined, allBounds, i) ==
    IF i > Len(allBounds) THEN combined
    ELSE CombineFrom(Extend(combined, allBounds[i]), allBounds, i + 1)

\* the bounds the timer's callback hands to map.fitBounds (lines 53-62);
\* NoView when it hands over none
FittedBounds(cs) ==
    LET allBounds == AllBounds(cs)
    IN IF Len(allBounds) = 1 THEN allBounds[1]
       ELSE IF Len(allBounds) > 1 THEN CombineFrom(allBounds[1], allBounds, 2)
       ELSE NoView

----------------------------------------------------------------------------
(* Circle-circle intersection.  Planar lengths are in hundredths of a degree *)
(* of latitude (1113.2 m), so that y = lat * 111320 is the latitude itself in *)
(* the model's degrees and a radius in meters is its LatDelta.               *)

RECURSIVE SqrtBetween(_, _, _)
\* the r with lo <= r < hi and r * r <= n < (r + 1) * (r + 1)
SqrtBetween(n, lo, hi) ==
    IF hi - lo <= 1 THEN lo
    ELSE LET mid == (lo + hi) \div 2
         IN IF mid * mid <= n THEN SqrtBetween(n, mid, hi)
            ELSE SqrtBetween(n, lo, mid)

\* Math.sqrt on a non-negative fixed-point number, rounded down
Sqrt(n) == SqrtBetween(n, 0, 46341)

\* x = longitude * 111320 * cos(latitude), y = latitude * 111320
Project(circle) ==
    [x |-> FDiv(circle.lng * Cos(circle.lat), CosScale), y |-> circle.lat]

\* back to lat/lng with the cosine of the average latitude of the two centers
Unproject(x, y, avgLat) ==
    [lat |-> y, lng |-> FDiv(x * CosScale, Cos(avgLat))]

\* the distance d of the two projected centers, each projected at its own
\* latitude
CenterDistance(circleA, circleB) ==
    LET dx == Project(circleB).x - Project(circleA).x
        dy == Project(circleB).y - Project(circleA).y
    IN Sqrt(dx * dx + dy * dy)

\* a circle's radius in planar units
PlanarRadius(circle) == FDiv(RadiusInMeters(circle), MetersPerDegree)

\* slips of the test of the empty cases: tangency counted among them (>= for
\* >, <= for <), the too-far-apart test left out, the containment test left
\* out
NoIntersectionOrTangent(d, r1, r2) ==
    d >= r1 + r2 \/ d <= Abs(r1 - r2) \/ d = 0

NoIntersectionFarMissing(d, r1, r2) ==
    d < Abs(r1 - r2) \/ d = 0

NoIntersectionContainedMissing(d, r1, r2) ==
    d > r1 + r2 \/ d = 0

\* the empty cases: too far apart, one inside the other, concentric
NoIntersection(d, r1, r2) ==
    d > r1 + r2 \/ d < Abs(r1 - r2) \/ d = 0

\* the two points of the standard construction, for d > 0: the foot (px, py)
\* at distance a from the first center on the line of centers, and h to either
\* side of it; Math.sqrt of a negative number has no value, 0 stands for it
TwoPoints(circleA, circleB) ==
    LET c1 == Project(circleA)
        c2 == Project(circleB)
        r1 == PlanarRadius(circleA)
        r2 == PlanarRadius(circleB)
        dx == c2.x - c1.x
        dy == c2.y - c1.y
        d == CenterDistance(circleA, circleB)
        a == FDiv(r1 * r1 - r2 * r2 + d * d, 2 * d)
        h == Sqrt(r1 * r1 - a * a)
        px == c1.x + FDiv(a * dx, d)
        py == c1.y + FDiv(a * dy, d)
        avgLat == FDiv(circleA.lat + circleB.lat, 2)
    IN << Unproject(px + FDiv(h * dy, d), py - FDiv(h * dx, d), avgLat),
          Unproject(px - FDiv(h * dy, d), py + FDiv(h * dx, d), avgLat) >>

\* a slip of intersect: concentric circles of equal radii taken for coincident
\* ones and answered with their center, twice
IntersectConcentricNotEmpty(circleA, circleB) ==
    LET d == CenterDistance(circleA, circleB)
        r1 == PlanarRadius(circleA)
        r2 == PlanarRadius(circleB)
    IN IF d = 0 /\ r1 = r2
       THEN << [lat |-> circleA.lat, lng |-> circleA.lng],
               [lat |-> circleA.lat, lng |-> circleA.lng] >>
       ELSE IF NoIntersection(d, r1, r2) THEN <<>>
       ELSE TwoPoints(circleA, circleB)

\* intersect(circleA, circleB): no point, or the two points of the standard
\* construction
Intersect(circleA, circleB) ==
    IF NoIntersection(CenterDistance(circleA, circleB),
                      PlanarRadius(circleA), PlanarRadius(circleB))
    THEN <<>>
    ELSE TwoPoints(circleA, circleB)

\* the intersection points of every unordered pair of circles of cs
IntersectionPoints(cs) ==
    LET pairs == { p \in (1..Len(cs)) \X (1..Len(cs)) : p[1] < p[2] }
        points(p) == Intersect(cs[p[1]], cs[p[2]])
    IN UNION { { points(p)[k] : k \in 1..Len(points(p)) } : p \in pairs }

----------------------------------------------------------------------------
(* The App component *)

\* the record `last` keeps of a step: the operation, and whether it cleared a
\* pending fit
Did(op, cleared) == [op |-> op, cleared |-> cleared]

\* the record `last` keeps of the start of a lookup: whether an error message
\* was on display when it started
Started(op, message) == [op |-> op, cleared |-> FALSE, hadError |-> message # ""]

\* Date.now().toString() (line 82)
NewId == ToString(now)

\* the <Circle> elements the render returns (lines 261-287)
Drawn(cs) ==
    [i \in 1..Len(cs) |->
        [lat |-> cs[i].lat, lng |-> cs[i].lng, radius |-> DrawnRadiusInMeters(cs[i])]]

\* a slip of the effect: the timer is not cleared when the component unmounts
ScheduleFitNoUnmountCleanup(cs, pending) ==
    IF Len(cs) = 0 THEN pending ELSE [kind |-> "timer", circles |-> cs]

\* a slip of the effect: a pending timer is left alone and no new one is set
\* while it is pending
ScheduleFitKeepsPending(cs, pending) ==
    IF pending # None THEN pending
    ELSE IF Len(cs) = 0 THEN None ELSE [kind |-> "timer", circles |-> cs]

\* AutoFitAllBounds' effect when App commits the array cs (lines 33-69, and the
\* conditional render of lines 258-260): the cleanup clears the timer of the
\* previous array, on unmount too, and a non-empty array schedules a new one
\* whose callback closes over cs
ScheduleFit(cs, pending) ==
    IF Len(cs) = 0 THEN None ELSE [kind |-> "timer", circles |-> cs]

\* setCircles(cs) and the render that follows
SetCircles(cs) ==
    /\ circles' = cs
    /\ fitTimer' = ScheduleFit(cs, fitTimer)
    /\ drawn' = Drawn(cs)

\* addCircle (lines 80-89); `closure` is the circles array of the render whose
\* handler is running
AddCircle(closure, lat, lng) ==
    Append(closure,
           [id |-> NewId, lat |-> lat, lng |-> lng,
            radius |-> 5 * RadiusScale, unit |-> "miles"])

\* a slip of updateCircle: the update spread into every circle
UpdateRadiusEveryCircle(cs, id, radius) ==
    [i \in 1..Len(cs) |-> [cs[i] EXCEPT !.radius = radius]]

\* circles.map(circle => circle.id === id ? {...circle, ...updates} : circle)
\* (lines 149-153), for updates = {radius} and updates = {unit}
UpdateRadius(cs, id, radius) ==
    [i \in 1..Len(cs) |->
        IF cs[i].id = id THEN [cs[i] EXCEPT !.radius = radius] ELSE cs[i]]

UpdateUnit(cs, id, unit) ==
    [i \in 1..Len(cs) |->
        IF cs[i].id = id THEN [cs[i] EXCEPT !.unit = unit] ELSE cs[i]]

\* a slip of deleteCircle: the filter keeps the circle it was to drop
\* (=== for !==)
FilterOutKeepsMatch(cs, id) == SelectSeq(cs, LAMBDA circle : circle.id = id)

\* circles.filter(circle => circle.id !== id) (lines 155-157)
RECURSIVE FilterOut(_, _)
FilterOut(cs, id) ==
    IF cs = <<>> THEN <<>>
    ELSE IF Head(cs).id = id THEN FilterOut(Tail(cs), id)
         ELSE <<Head(cs)>> \o FilterOut(Tail(cs), id)

Init ==
    /\ circles = <<>>
    /\ loading = FALSE
    /\ error = ""
    /\ address = <<>>
    /\ lookup = None
    /\ geoSupported \in BOOLEAN
    /\ now = 1
    /\ fitTimer = None
    /\ mapView = NoView
    /\ drawn = <<>>
    /\ edits = 0
    /\ inFlight = 0
    /\ intersections = <<>>
    /\ last = Did("init", FALSE)

\* getLocation where navigator.geolocation is missing (lines 91-99)
GetLocationUnsupported ==
    /\ ~loading
    /\ ~geoSupported
    /\ error' = "Geolocation is not supported by your browser"
    /\ loading' = FALSE
    /\ last' = Did("geoUnsupported", FALSE)
    /\ UNCHANGED <<circles, address, lookup, geoSupported, now, fitTimer, mapView,
                   drawn, edits, inFlight, intersections>>

\* a slip of the render: the location button without disabled={loading}
GetLocationNotDisabled ==
    /\ geoSupported
    /\ Len(circles) < MaxCircles
    /\ loading' = TRUE
    /\ error' = ""
    /\ lookup' = [kind |-> "geo", closure |-> circles]
    /\ last' = Started("getLocation", error)
    /\ inFlight' = inFlight + 1
    /\ UNCHANGED <<circles, address, geoSupported, now, fitTimer, mapView, drawn,
                   edits, intersections>>

\* getLocation up to the call of getCurrentPosition (lines 91-101); the button
\* is disabled while loading (line 180)
GetLocation ==
    /\ ~loading
    /\ geoSupported
    /\ Len(circles) < MaxCircles
    /\ loading' = TRUE
    /\ error' = ""
    /\ lookup' = [kind |-> "geo", closure |-> circles]
    /\ last' = Started("getLocation", error)
    /\ inFlight' = inFlight + 1
    /\ UNCHANGED <<circles, address, geoSupported, now, fitTimer, mapView, drawn,
                   edits, intersections>>

\* the success callback of getCurrentPosition (lines 102-105)
GeoSuccess(pos) ==
    /\ lookup.kind = "geo"
    /\ SetCircles(AddCircle(lookup.closure, pos.lat, pos.lng))
    /\ loading' = FALSE
    /\ lookup' = None
    /\ last' = Did("geoSuccess", fitTimer # None)
    /\ inFlight' = inFlight - 1
    /\ UNCHANGED <<error, address, geoSupported, now, mapView, edits, intersections>>

\* the error callback of getCurrentPosition (lines 106-109)
GeoError(message) ==
    /\ lookup.kind = "geo"
    /\ error' = "Error getting location: " \o message
    /\ loading' = FALSE
    /\ lookup' = None
    /\ last' = Did("geoError", FALSE)
    /\ inFlight' = inFlight - 1
    /\ UNCHANGED <<circles, address, geoSupported, now, fitTimer, mapView, drawn,
                   edits, intersections>>

\* the address input's onChange (line 189); the input is disabled while loading
TypeAddress(text) ==
    /\ ~loading
    /\ text # address
    /\ address' = text
    /\ last' = Did("typeAddress", FALSE)
    /\ UNCHANGED <<circles, loading, error, lookup, geoSupported, now, fitTimer,
                   mapView, drawn, edits, inFlight, intersections>>

\* a slip of searchAddress: setLoading(true) ahead of the blank test, as in
\* getLocation, and no setLoading(false) before the return
SearchAddressBlankStartsLoading ==
    /\ ~loading
    /\ IsBlank(address)
    /\ loading' = TRUE
    /\ error' = "Please enter an address"
    /\ last' = Did("searchBlank", FALSE)
    /\ UNCHANGED <<circles, address, lookup, geoSupported, now, fitTimer,
                   mapView, drawn, edits, inFlight, intersections>>

\* searchAddress with a blank address (lines 113-117), reached by the Enter key
\* (lines 159-163): the Add button is disabled then
SearchAddressBlank ==
    /\ ~loading
    /\ IsBlank(address)
    /\ error' = "Please enter an address"
    /\ last' = Did("searchBlank", FALSE)
    /\ UNCHANGED <<circles, loading, address, lookup, geoSupported, now, fitTimer,
                   mapView, drawn, edits, inFlight, intersections>>

\* a slip of searchAddress: no setError('') after setLoading(true)
SearchAddressKeepsError ==
    /\ ~loading
    /\ ~IsBlank(address)
    /\ Len(circles) < MaxCircles
    /\ loading' = TRUE
    /\ lookup' = [kind |-> "addr", closure |-> circles]
    /\ last' = Started("searchAddress", error)
    /\ inFlight' = inFlight + 1
    /\ UNCHANGED <<circles, error, address, geoSupported, now, fitTimer, mapView, drawn,
                   edits, intersections>>

\* searchAddress up to the fetch (lines 113-130)
SearchAddress ==
    /\ ~loading
    /\ ~IsBlank(address)
    /\ Len(circles) < MaxCircles
    /\ loading' = TRUE
    /\ error' = ""
    /\ lookup' = [kind |-> "addr", closure |-> circles]
    /\ last' = Started("searchAddress", error)
    /\ inFlight' = inFlight + 1
    /\ UNCHANGED <<circles, address, geoSupported, now, fitTimer, mapView, drawn,
                   edits, intersections>>

\* a slip of the success branch: no setAddress('')
AddressFoundKeepsAddress(pos) ==
    /\ lookup.kind = "addr"
    /\ SetCircles(AddCircle(lookup.closure, pos.lat, pos.lng))
    /\ loading' = FALSE
    /\ lookup' = None
    /\ last' = Did("addressFound", fitTimer # None)
    /\ inFlight' = inFlight - 1
    /\ UNCHANGED <<error, address, geoSupported, now, mapView, edits, intersections>>

\* the response has a first match (lines 132-142)
AddressFound(pos) ==
    /\ lookup.kind = "addr"
    /\ SetCircles(AddCircle(lookup.closure, pos.lat, pos.lng))
    /\ address' = <<>>
    /\ loading' = FALSE
    /\ lookup' = None
    /\ last' = Did("addressFound", fitTimer # None)
    /\ inFlight' = inFlight - 1
    /\ UNCHANGED <<error, geoSupported, now, mapView, edits, intersections>>

\* a slip of the not-found branch: the return without setLoading(false)
AddressNotFoundStaysLoading ==
    /\ lookup.kind = "addr"
    /\ error' = "Address not found. Please try a different search."
    /\ lookup' = None
    /\ last' = Did("addressNotFound", FALSE)
    /\ inFlight' = inFlight - 1
    /\ UNCHANGED <<circles, loading, address, geoSupported, now, fitTimer, mapView,
                   drawn, edits, intersections>>

\* the response is an empty array (lines 134-138)
AddressNotFound ==
    /\ lookup.kind = "addr"
    /\ error' = "Address not found. Please try a different search."
    /\ loading' = FALSE
    /\ lookup' = None
    /\ last' = Did("addressNotFound", FALSE)
    /\ inFlight' = inFlight - 1
    /\ UNCHANGED <<circles, address, geoSupported, now, fitTimer, mapView, drawn,
                   edits, intersections>>

\* a slip of the catch branch: no setLoading(false) in it
AddressFailedStaysLoading ==
    /\ lookup.kind = "addr"
    /\ error' = "Error searching for address. Please try again."
    /\ lookup' = None
    /\ last' = Did("addressFailed", FALSE)
    /\ inFlight' = inFlight - 1
    /\ UNCHANGED <<circles, loading, address, geoSupported, now, fitTimer, mapView,
                   drawn, edits, intersections>>

\* fetch or response.json() rejects (lines 143-146)
AddressFailed ==
    /\ lookup.kind = "addr"
    /\ error' = "Error searching for address. Please try again."
    /\ loading' = FALSE
    /\ lookup' = None
    /\ last' = Did("addressFailed", FALSE)
    /\ inFlight' = inFlight - 1
    /\ UNCHANGED <<circles, address, geoSupported, now, fitTimer, mapView, drawn,
                   edits, intersections>>

\* the radius input's onChange on row i (lines 217-224)
EditRadius(i, text) ==
    /\ i \in 1..Len(circles)
    /\ edits < MaxEdits
    /\ SetCircles(UpdateRadius(circles, circles[i].id, RadiusFromInput(text)))
    /\ edits' = edits + 1
    /\ last' = Did("editRadius", fitTimer # None)
    /\ UNCHANGED <<loading, error, address, lookup, geoSupported, now, mapView,
                   inFlight, intersections>>

\* the unit select's onChange on row i (lines 225-232)
EditUnit(i, unit) ==
    /\ i \in 1..Len(circles)
    /\ edits < MaxEdits
    /\ SetCircles(UpdateUnit(circles, circles[i].id, unit))
    /\ edits' = edits + 1
    /\ last' = Did("editUnit", fitTimer # None)
    /\ UNCHANGED <<loading, error, address, lookup, geoSupported, now, mapView,
                   inFlight, intersections>>

\* the delete button of row i (lines 233-239)
DeleteCircle(i) ==
    /\ i \in 1..Len(circles)
    /\ edits < MaxEdits
    /\ SetCircles(FilterOut(circles, circles[i].id))
    /\ edits' = edits + 1
    /\ last' = Did("deleteCircle", fitTimer # None)
    /\ UNCHANGED <<loading, error, address, lookup, geoSupported, now, mapView,
                   inFlight, intersections>>

\* the record `last` keeps of a fit: what the view was before it, compared
\* with the bounds fitted ("none": the initial view, "same", "other")
Fitted(view, bounds) ==
    [op |-> "fit", cleared |-> FALSE,
     prior |-> IF view.kind # "bounds" THEN "none"
               ELSE IF view = bounds THEN "same" ELSE "other"]

\* a slip of the callback: combinedBounds kept from the previous run and
\* extended, instead of starting from allBounds[0]
FitTimerFiresExtendsView ==
    /\ fitTimer.kind = "timer"
    /\ LET bounds == FittedBounds(fitTimer.circles)
       IN /\ mapView' = IF mapView.kind = "bounds" THEN Extend(mapView, bounds)
                         ELSE bounds
          /\ last' = Fitted(mapView, bounds)
    /\ fitTimer' = None
    /\ UNCHANGED <<circles, loading, error, address, lookup, geoSupported, now, drawn,
                   edits, inFlight, intersections>>

\* the callback of setTimeout(..., 100) runs (lines 36-66)
FitTimerFires ==
    /\ fitTimer.kind = "timer"
    /\ LET bounds == FittedBounds(fitTimer.circles)
       IN /\ mapView' = IF bounds.kind = "bounds" THEN bounds ELSE mapView
          /\ last' = Fitted(mapView, bounds)
    /\ fitTimer' = None
    /\ UNCHANGED <<circles, loading, error, address, lookup, geoSupported, now, drawn,
                   edits, inFlight, intersections>>

\* the clock Date.now() reads moves on.  It is the wall clock in whole
\* milliseconds (coarser in some browsers) and nothing in App makes it advance
\* between two reads, so two circles can be added without a Tick in between
Tick ==
    /\ now < MaxTime
    /\ now' = now + 1
    /\ last' = Did("tick", FALSE)
    /\ UNCHANGED <<circles, loading, error, address, lookup, geoSupported, fitTimer,
                   mapView, drawn, edits, inFlight, intersections>>

Next ==
    \/ GetLocationUnsupported
    \/ GetLocation
    \/ \E pos \in Coords : GeoSuccess(pos)
    \/ \E message \in GeoErrorMessages : GeoError(message)
    \/ \E text \in AddressTexts : TypeAddress(text)
    \/ SearchAddressBlank
    \/ SearchAddress
    \/ \E pos \in Coords : AddressFound(pos)
    \/ AddressNotFound
    \/ AddressFailed
    \/ \E i \in 1..MaxCircles, text \in RadiusTexts : EditRadius(i, text)
    \/ \E i \in 1..MaxCircles, unit \in Units : EditUnit(i, unit)
    \/ \E i \in 1..MaxCircles : DeleteCircle(i)
    \/ FitTimerFires
    \/ Tick

Spec == Init /\ [][Next]_vars

\* the provider answers the lookup in flight, in one of the five ways
LookupEnds ==
    \/ \E pos \in Coords : GeoSuccess(pos)
    \/ \E message \in GeoErrorMessages : GeoError(message)
    \/ \E pos \in Coords : AddressFound(pos)
    \/ AddressNotFound
    \/ AddressFailed

\* the program with a provider that answers: a request that stays unanswered
\* is answered
LookupFairSpec == Spec /\ WF_vars(LookupEnds)

\* Inputs of the specification of the fit timer: one place, one radius text
FitCoords == { [lat |-> 1000, lng |-> -17900] }

FitRadiusTexts == { <<"0", ".", "5">> }

\* the steps that change the circle set or the timer, over the inputs above,
\* with circles added by geolocation
FitNext ==
    \/ GetLocationUnsupported
    \/ GetLocation
    \/ \E pos \in FitCoords : GeoSuccess(pos)
    \/ \E message \in GeoErrorMessages : GeoError(message)
    \/ \E i \in 1..MaxCircles, text \in FitRadiusTexts : EditRadius(i, text)
    \/ \E i \in 1..MaxCircles, unit \in Units : EditUnit(i, unit)
    \/ \E i \in 1..MaxCircles : DeleteCircle(i)
    \/ FitTimerFires
    \/ Tick

\* these steps under the browser's timers: a timer that stays set fires
FitFairSpec ==
    /\ Init
    /\ [][FitNext]_vars
    /\ WF_vars(FitTimerFires)

----------------------------------------------------------------------------
(* The geometry engine on its own: intersect applied to the two circles of  *)
(* a circle set, over centers on the equator and radii that make every case *)
(* of the function happen: apart, crossing, tangent from outside and from   *)
(* inside, one within the other, concentric.                                *)

\* longitudes of the centers, in hundredths of a degree
GeoLongitudes == {0, 100, 500, 1200, 2000, 5000}

\* radii in tenths of a kilometer: 278.3, 556.6 and 1113.2 km, which are 250,
\* 500 and 1000 planar units
GeoRadii == {2783, 5566, 11132}

\* the circles of the given id the engine is applied to
GeoCircles(id) ==
    { [id |-> id, lat |-> 0, lng |-> lng, radius |-> radius, unit |-> "km"] :
        lng \in GeoLongitudes, radius \in GeoRadii }

\* the record `last` keeps of a call of intersect on the circles i and j
Called(i, j) == [op |-> "intersect", cleared |-> FALSE, first |-> i, second |-> j]

\* App at rest with two circles on the map, fitted
GeoInit ==
    /\ circles \in { <<circleA, circleB>> :
                        circleA \in GeoCircles("1"), circleB \in GeoCircles("2") }
    /\ loading = FALSE
    /\ error = ""
    /\ address = <<>>
    /\ lookup = None
    /\ geoSupported = TRUE
    /\ now = MaxTime
    /\ fitTimer = None
    /\ mapView = FittedBounds(circles)
    /\ drawn = Drawn(circles)
    /\ edits = 0
    /\ inFlight = 0
    /\ intersections = <<>>
    /\ last = Did("init", FALSE)

\* a call intersect(circles[i], circles[j])
IntersectPair(i, j) ==
    /\ i # j
    /\ intersections' = Intersect(circles[i], circles[j])
    /\ last' = Called(i, j)
    /\ UNCHANGED <<circles, loading, error, address, lookup, geoSupported, now,
                   fitTimer, mapView, drawn, inFlight, edits>>

GeoNext == \E i, j \in 1..Len(circles) : IntersectPair(i, j)

GeoSpec == GeoInit /\ [][GeoNext]_vars

----------------------------------------------------------------------------
(* Claims *)

\* the box b contains the box inner
ContainsBox(b, inner) ==
    /\ b.minLat <= inner.minLat /\ inner.maxLat <= b.maxLat
    /\ b.minLng <= inner.minLng /\ inner.maxLng <= b.maxLng

\* the box b contains the point p
ContainsPoint(b, p) ==
    /\ b.minLat <= p.lat /\ p.lat <= b.maxLat
    /\ b.minLng <= p.lng /\ p.lng <= b.maxLng

\* C1: every circle of the circle set has radius > 0, whatever text the radius
\* input delivered.
C1_RadiusPositive == \A i \in 1..Len(circles) : circles[i].radius > 0

\* C2: the bounding region handed to the map contains the box of every circle
\* of the set and every intersection point of every pair of its circles.
C2_RegionCoversBoxesAndIntersections ==
    last.op = "fit" =>
        /\ mapView.kind = "bounds"
        /\ \A i \in 1..Len(circles) : ContainsBox(mapView, CircleBounds(circles[i]))
        /\ \A p \in IntersectionPoints(circles) : ContainsPoint(mapView, p)

\* C3: while the circle set is empty no bounding region is produced, no fit is
\* pending and none is applied to the map, also right after the last circle
\* was deleted with a fit still pending.
C3_NoFitWhenEmpty ==
    circles = <<>> =>
        /\ FittedBounds(circles).kind # "bounds"
        /\ fitTimer = None
        /\ last.op # "fit"

\* C3's case: the deletion of the last circle cleared a pending fit
C3_Witness ==
    /\ circles = <<>>
    /\ last.op = "deleteCircle"
    /\ last.cleared
    /\ mapView = NoView

\* C4: a successful lookup adds exactly one circle to the circle set as it is
\* when the lookup completes: every circle present then is kept as it is.
C4_SuccessKeepsCurrentCircles ==
    [][last'.op \in {"geoSuccess", "addressFound"} =>
          /\ Len(circles') = Len(circles) + 1
          /\ SubSeq(circles', 1, Len(circles)) = circles]_vars

FailureOps == {"geoUnsupported", "geoError", "addressNotFound", "addressFailed"}

\* C5: every lookup failure sets a non-empty error message, leaves the circle
\* set unchanged and leaves loading false.
C5_FailuresRecoverable ==
    [][last'.op \in FailureOps =>
          /\ error' # ""
          /\ circles' = circles
          /\ loading' = FALSE]_vars

\* C5's case: a lookup started with circles on the map has failed
C5_Witness ==
    /\ last.op \in FailureOps
    /\ circles # <<>>
    /\ error # ""
    /\ ~loading

\* C6: no two circles of the circle set share an id.
C6_IdsUnique ==
    \A i, j \in 1..Len(circles) : i # j => circles[i].id # circles[j].id

\* the least and the greatest member of a non-empty set of integers
SetMin(S) == CHOOSE m \in S : \A n \in S : m <= n

SetMax(S) == CHOOSE m \in S : \A n \in S : m >= n

\* the smallest box containing the boxes of the circles of cs
UnionOfBoxes(cs) ==
    LET boxes == { CircleBounds(cs[i]) : i \in 1..Len(cs) }
    IN [minLat |-> SetMin({ b.minLat : b \in boxes }),
        minLng |-> SetMin({ b.minLng : b \in boxes }),
        maxLat |-> SetMax({ b.maxLat : b \in boxes }),
        maxLng |-> SetMax({ b.maxLng : b \in boxes }),
        kind |-> "bounds"]

\* C7: for one or more circles the fitted region is the union of the circles'
\* boxes (the minima of their mins and the maxima of their maxes), in whatever
\* order the circles are listed.
C7_RegionIsUnionOfBoxes ==
    last.op = "fit" => mapView = UnionOfBoxes(circles)

\* C7's case: two circles were fitted, and neither one's box is the region
C7_Witness ==
    /\ last.op = "fit"
    /\ Len(circles) = 2
    /\ mapView # CircleBounds(circles[1])
    /\ mapView # CircleBounds(circles[2])
    /\ CircleBounds(circles[2]).minLat < CircleBounds(circles[1]).minLat

\* radius * 1609.34 for miles, radius * 1000 for kilometers, in hundredths of a
\* meter, for a radius in tenths
ToMeters(radius, unit) ==
    LET magnitude == IF unit = "miles"
                     THEN MulDiv(Abs(radius), 160934, 10)
                     ELSE Abs(radius) * 1000 * 10
    IN IF radius < 0 THEN -magnitude ELSE magnitude

\* C8 as stated: the region fitted for a single circle is radiusMeters/111320
\* degrees tall and centered on the circle's center.
C8_SingleBoxHeightIsLatDelta ==
    (last.op = "fit" /\ Len(circles) = 1) =>
        /\ mapView.maxLat - mapView.minLat = FDiv(ToMeters(circles[1].radius, circles[1].unit), 111320)
        /\ mapView.minLat + mapView.maxLat = 2 * circles[1].lat
        /\ mapView.minLng + mapView.maxLng = 2 * circles[1].lng

\* C8 amended: the region fitted for a single circle is 2 * |radiusMeters| /
\* 111320 degrees tall (|radiusMeters|/111320 degrees to either side of the
\* center) and centered on the circle's center.
C8_SingleBoxHeightIsTwiceLatDelta ==
    (last.op = "fit" /\ Len(circles) = 1) =>
        /\ mapView.maxLat - mapView.minLat
               = 2 * Abs(FDiv(ToMeters(circles[1].radius, circles[1].unit), 111320))
        /\ mapView.minLat + mapView.maxLat = 2 * circles[1].lat
        /\ mapView.minLng + mapView.maxLng = 2 * circles[1].lng

\* C8's case: a single circle of non-zero height was fitted
C8_Witness ==
    /\ last.op = "fit"
    /\ Len(circles) = 1
    /\ mapView.kind = "bounds"
    /\ mapView.maxLat > mapView.minLat

\* C9: the radius in meters is radius * 1609.34 for miles and radius * 1000 for
\* kilometers, and the bounding-box computation and the drawn circle use the
\* same value for the same circle.
C9_SameMeters ==
    /\ Len(drawn) = Len(circles)
    /\ \A i \in 1..Len(circles) :
          /\ RadiusInMeters(circles[i]) = ToMeters(circles[i].radius, circles[i].unit)
          /\ drawn[i].radius = ToMeters(circles[i].radius, circles[i].unit)
    /\ fitTimer # None => fitTimer.circles = circles

\* C9's case: a circle in miles and one in kilometers are drawn, a fit pending
C9_Witness ==
    /\ Len(circles) = 2
    /\ circles[1].unit = "km"
    /\ circles[2].unit = "miles"
    /\ circles[1].radius # circles[2].radius
    /\ fitTimer # None

\* C10: a radius edit or a unit edit changes only that field of the circle with
\* the given id; ids, centers, the other field, all circles of another id, and
\* the number and order of circles stay as they were.
C10_EditChangesOneField ==
    [][last'.op \in {"editRadius", "editUnit"} =>
          /\ Len(circles') = Len(circles)
          /\ \A i \in 1..Len(circles) :
                /\ circles'[i].id = circles[i].id
                /\ circles'[i].lat = circles[i].lat
                /\ circles'[i].lng = circles[i].lng
                /\ last'.op = "editRadius" => circles'[i].unit = circles[i].unit
                /\ last'.op = "editUnit" => circles'[i].radius = circles[i].radius
          /\ \A i, j \in 1..Len(circles) :
                (circles'[i] # circles[i] /\ circles'[j] # circles[j])
                    => circles[i].id = circles[j].id]_vars

\* C10's case: of two circles with different ids and centers an edit has
\* changed one
C10_Witness ==
    /\ last.op \in {"editRadius", "editUnit"}
    /\ Len(circles) = 2
    /\ circles[1].id # circles[2].id
    /\ circles[1].lat # circles[2].lat
    /\ (circles[1].radius # circles[2].radius \/ circles[1].unit # circles[2].unit)

\* the circles of cs in their order, those of the given id left out
Without(cs, id) == SelectSeq(cs, LAMBDA circle : circle.id # id)

StartOps == {"getLocation", "searchAddress"}

\* C12: at most one lookup is in flight at any time; a lookup starts only
\* while loading is false and none is in flight, and the step that starts it
\* issues one request; no other step issues any, a failure in particular.
C12_OneLookupAtATime ==
    /\ [](inFlight <= 1)
    /\ [][/\ last'.op \in StartOps =>
                 (~loading /\ inFlight = 0 /\ inFlight' = 1)
          /\ last'.op \notin StartOps => inFlight' <= inFlight
          /\ last'.op \in FailureOps => inFlight' = 0]_vars

\* C12's case: a failed lookup has ended and nothing is in flight after it
C12_Witness ==
    /\ last.op \in {"geoError", "addressNotFound", "addressFailed"}
    /\ inFlight = 0
    /\ circles # <<>>

\* C13, as claimed: whenever the circle set is not empty the region in effect
\* is the one computed from it, with no state in between.
C13_RegionRecomputedAtOnce ==
    circles # <<>> => mapView = UnionOfBoxes(circles)

\* C13, amended: whenever the circle set is not empty, either a fit computed
\* from it is pending, or none is pending and the region in effect is the one
\* computed from it.
C13_RegionRecomputedByTimer ==
    circles # <<>> =>
        \/ fitTimer = [kind |-> "timer", circles |-> circles]
        \/ fitTimer = None /\ mapView = UnionOfBoxes(circles)

\* C13's case: the circle set has changed and the map still shows the region
\* of the earlier set
C13_Witness ==
    /\ last.op \in {"geoSuccess", "addressFound", "editRadius", "editUnit", "deleteCircle"}
    /\ circles # <<>>
    /\ mapView.kind = "bounds"
    /\ mapView # UnionOfBoxes(circles)
    /\ fitTimer # None

\* the two circles of the last call of intersect, their planar radii and the
\* distance of their projected centers
CalledA == circles[last.first]

CalledB == circles[last.second]

CalledDistance == CenterDistance(CalledA, CalledB)

CalledRadiusA == FDiv(ToMeters(CalledA.radius, CalledA.unit), 111320)

CalledRadiusB == FDiv(ToMeters(CalledB.radius, CalledB.unit), 111320)

\* C14: intersect returns no point or two, never one; for a tangent pair
\* (d = r1 + r2 or d = |r1 - r2|, d > 0) it returns two points that coincide.
C14_ZeroOrTwoPoints ==
    last.op = "intersect" =>
        /\ Len(intersections) \in {0, 2}
        /\ (/\ CalledDistance > 0
            /\ \/ CalledDistance = CalledRadiusA + CalledRadiusB
               \/ CalledDistance = Abs(CalledRadiusA - CalledRadiusB))
              => (Len(intersections) = 2 /\ intersections[1] = intersections[2])

\* C14's case: intersect has answered for a pair tangent from outside
C14_Witness ==
    /\ last.op = "intersect"
    /\ CalledDistance > 0
    /\ CalledDistance = CalledRadiusA + CalledRadiusB
    /\ Len(intersections) = 2

\* C15: for a pair with d > r1 + r2 intersect returns the empty list, and the
\* set of intersection points to display for the pair is empty.
C15_FarApartIsEmpty ==
    (last.op = "intersect" /\ CalledDistance > CalledRadiusA + CalledRadiusB) =>
        (intersections = <<>> /\ IntersectionPoints(circles) = {})

\* C15's case: intersect has answered for a pair too far apart
C15_Witness ==
    /\ last.op = "intersect"
    /\ CalledDistance > CalledRadiusA + CalledRadiusB
    /\ intersections = <<>>

\* C16: for a pair with d < |r1 - r2| intersect returns the empty list.
C16_ContainedIsEmpty ==
    (last.op = "intersect" /\ CalledDistance < Abs(CalledRadiusA - CalledRadiusB)) =>
        intersections = <<>>

\* C16's case: intersect has answered for a circle inside another, off center
C16_Witness ==
    /\ last.op = "intersect"
    /\ CalledDistance > 0
    /\ CalledDistance < Abs(CalledRadiusA - CalledRadiusB)
    /\ intersections = <<>>

\* C17: for a pair with d = 0 intersect returns the empty list, whatever the
\* radii, equal ones included.
C17_ConcentricIsEmpty ==
    (last.op = "intersect" /\ CalledDistance = 0) => intersections = <<>>

\* C17's case: intersect has answered for concentric circles of equal radii
C17_Witness ==
    /\ last.op = "intersect"
    /\ CalledDistance = 0
    /\ CalledRadiusA = CalledRadiusB
    /\ intersections = <<>>

\* C18: the region a fit puts into effect is the union of the boxes of the
\* current circle set, whatever the view was before it: the initial view, the
\* same region (which the fit then leaves as it is), or the region of another
\* circle set.
C18_RegionDependsOnSetOnly ==
    [][last'.op = "fit" =>
          /\ mapView' = UnionOfBoxes(circles')
          /\ mapView = UnionOfBoxes(circles') => mapView' = mapView
          /\ last'.prior \in {"none", "same", "other"}]_vars

\* C18's case: a fit of two circles has replaced the region of another circle
\* set
C18_Witness ==
    /\ last.op = "fit"
    /\ last.prior = "other"
    /\ Len(circles) = 2
    /\ mapView = UnionOfBoxes(circles)

ChangeOps == {"geoSuccess", "addressFound", "editRadius", "editUnit", "deleteCircle"}

\* C19: a change of the circle set leaves exactly the fit of the new set
\* pending (none when the set is empty), whatever was pending before; a fit
\* that is applied was computed from the circle set current when it fires;
\* and a non-empty circle set is eventually fitted, unless it is emptied.
C19_FitFollowsLastChange ==
    /\ [][/\ last'.op \in ChangeOps =>
                 /\ circles' # <<>> => fitTimer' = [kind |-> "timer", circles |-> circles']
                 /\ circles' = <<>> => fitTimer' = None
                 /\ mapView' = mapView
          /\ last'.op = "fit" =>
                 /\ fitTimer.circles = circles
                 /\ mapView' = UnionOfBoxes(circles)
                 /\ fitTimer' = None]_vars
    /\ (circles # <<>>) ~>
           (circles = <<>> \/ (fitTimer = None /\ mapView = UnionOfBoxes(circles)))

\* C19's case: a change of the circle set has cancelled the fit pending from
\* the earlier set and scheduled the fit of the new one
C19_Witness ==
    /\ last.op \in ChangeOps
    /\ last.cleared
    /\ circles # <<>>
    /\ fitTimer = [kind |-> "timer", circles |-> circles]
    /\ mapView = NoView

EndOps == {"geoSuccess", "geoError", "addressFound", "addressNotFound", "addressFailed"}

\* C20: loading is true exactly while a lookup is in flight; every outcome of
\* a lookup, and the unsupported-geolocation return, leaves loading false; and
\* a lookup that has started eventually ends with loading false.
C20_LoadingWhileInFlight ==
    /\ [](loading <=> (inFlight = 1 /\ lookup # None))
    /\ [][/\ last'.op \in EndOps => (loading /\ ~loading')
          /\ last'.op = "geoUnsupported" => ~loading']_vars
    /\ loading ~> ~loading

\* C20's case: a lookup has ended with a new circle and the controls are
\* enabled again
C20_Witness ==
    /\ last.op \in {"geoSuccess", "addressFound"}
    /\ ~loading
    /\ inFlight = 0
    /\ Len(circles) = 2

\* C21: a search with an empty or blank address sets the error message
\* 'Please enter an address' and nothing else: no request is issued and
\* loading, the circle set and the address text stay as they were; and no
\* request for an address is ever issued for a blank text.
C21_BlankSearchOnlySetsError ==
    [][/\ last'.op = "searchBlank" =>
             /\ \A k \in 1..Len(address) : address[k] = " "
             /\ error' = "Please enter an address"
             /\ inFlight' = inFlight
             /\ lookup' = lookup
             /\ loading' = loading
             /\ circles' = circles
             /\ address' = address
       /\ last'.op = "searchAddress" =>
             \E k \in 1..Len(address) : address[k] # " "]_vars

\* C21's case: a search with a blank address, while a circle is on the map
C21_Witness ==
    /\ last.op = "searchBlank"
    /\ address = <<" ">>
    /\ error = "Please enter an address"
    /\ circles # <<>>
    /\ ~loading

\* the steps that set an error message, and the message each of them sets
ErrorOps == FailureOps \cup {"searchBlank"}

ErrorMessages(op) ==
    IF op = "geoUnsupported" THEN {"Geolocation is not supported by your browser"}
    ELSE IF op = "geoError"
         THEN {"Error getting location: ", "Error getting location: User denied Geolocation"}
    ELSE IF op = "addressNotFound"
         THEN {"Address not found. Please try a different search."}
    ELSE IF op = "addressFailed"
         THEN {"Error searching for address. Please try again."}
    ELSE {"Please enter an address"}

\* C22: the start of a lookup leaves the error message empty, it stays empty
\* while the lookup is in flight and when it succeeds; the message changes
\* only when a lookup starts or an action fails, and a failed action leaves
\* its own message, so a message on display is that of the last failed action.
C22_ErrorFromLastFailure ==
    /\ [](loading => error = "")
    /\ [][/\ last'.op \in StartOps => error' = ""
          /\ last'.op \in {"geoSuccess", "addressFound"} => (error = "" /\ error' = "")
          /\ error' # error => last'.op \in StartOps \cup ErrorOps
          /\ last'.op \in ErrorOps => error' \in ErrorMessages(last'.op)]_vars

\* C22's case: a lookup has started while an error message was on display,
\* and the message is gone
C22_Witness ==
    /\ last.op \in StartOps
    /\ last.hadError
    /\ error = ""
    /\ loading

\* C23: an address search that succeeds adds the circle and leaves the address
\* input empty; one that finds nothing or fails leaves the address text as it
\* was searched, not blank, with the input enabled again.
C23_AddressClearedOnSuccessOnly ==
    [][/\ last'.op = "addressFound" =>
             /\ address # <<>>
             /\ address' = <<>>
             /\ circles' # <<>>
             /\ circles'[Len(circles')].id = ToString(now)
       /\ last'.op \in {"addressNotFound", "addressFailed"} =>
             /\ address' = address
             /\ \E k \in 1..Len(address') : address'[k] # " "
             /\ ~loading'
             /\ circles' = circles]_vars

\* C23's case: an address search has succeeded and the input is empty
C23_Witness ==
    /\ last.op = "addressFound"
    /\ address = <<>>
    /\ Len(circles) = 2
    /\ ~loading

====
